---- MODULE Spec2Model ----
(***************************************************************************)
(* Model of caires/main.py: the block extractor for F2:H6 and L2:S6.       *)
(*                                                                         *)
(* Strings are sequences of one-character strings.  A DataFrame is a       *)
(* record [columns, rows]: the column names and the rows, each row a       *)
(* sequence of cell values.  A cell read from a file is the symbolic value *)
(* <<file id, r, c>>: the content of data row r, column c (both positional,*)
(* zero-based) of the table read_any_table returns for that file.          *)
(***************************************************************************)
EXTENDS Integers, Sequences, FiniteSets, TLC

VARIABLES
    \* --- col_letter_to_index called on its own
    letter, col_index, col_pc,
    \* --- extract_excel_like_range called on its own
    rng, rng_out, rng_pc,
    \* --- one run of the Streamlit script
    conditions_text, header_in_row1, conditions, widgets,
    uploaded_by_condition, results_long, results_wide, errors,
    it, df_wide, df_long, pc

colVars == <<letter, col_index, col_pc>>
rngVars == <<rng, rng_out, rng_pc>>
runVars == <<conditions_text, header_in_row1, conditions, widgets,
             uploaded_by_condition, results_long, results_wide, errors,
             it, df_wide, df_long, pc>>
vars == <<colVars, rngVars, runVars>>

(***************************************************************************)
(* Python str primitives used by the program                               *)
(***************************************************************************)
UpperCase == <<"A","B","C","D","E","F","G","H","I","J","K","L","M",
               "N","O","P","Q","R","S","T","U","V","W","X","Y","Z">>
LowerCase == <<"a","b","c","d","e","f","g","h","i","j","k","l","m",
               "n","o","p","q","r","s","t","u","v","w","x","y","z">>

\* the characters the model's strings are made of
Chars ==
    {UpperCase[i] : i \in 1..26} \cup {LowerCase[i] : i \in 1..26}
        \cup {" ", "\t", "\n", ".", "_", "0", "1", "2", "3", "4", "5", "6", "7", "8", "9"}

\* ord(ch), ASCII
Ascii ==
    [ch \in Chars |->
        IF \E i \in 1..26 : UpperCase[i] = ch
        THEN 64 + (CHOOSE i \in 1..26 : UpperCase[i] = ch)
        ELSE IF \E i \in 1..26 : LowerCase[i] = ch
        THEN 96 + (CHOOSE i \in 1..26 : LowerCase[i] = ch)
        ELSE IF ch = " " THEN 32
        ELSE IF ch = "\t" THEN 9
        ELSE IF ch = "\n" THEN 10
        ELSE IF ch = "_" THEN 95
        ELSE IF ch = "." THEN 46
        ELSE 48 + (CHOOSE d \in 0..9 :
                     <<"0","1","2","3","4","5","6","7","8","9">>[d + 1] = ch)]
Ord(ch) == Ascii[ch]

\* str.isspace() on the whitespace the model uses; also what \s matches
IsSpace(ch) == ch \in {" ", "\t", "\n"}

\* str.upper() / str.lower(), character by character
ToUpper ==
    [ch \in Chars |->
        IF \E i \in 1..26 : LowerCase[i] = ch
        THEN UpperCase[CHOOSE i \in 1..26 : LowerCase[i] = ch]
        ELSE ch]
ToLower ==
    [ch \in Chars |->
        IF \E i \in 1..26 : UpperCase[i] = ch
        THEN LowerCase[CHOOSE i \in 1..26 : UpperCase[i] = ch]
        ELSE ch]
UpperCh(ch) == ToUpper[ch]
LowerCh(ch) == ToLower[ch]
PyUpper(s) == [i \in 1..Len(s) |-> UpperCh(s[i])]
PyLower(s) == [i \in 1..Len(s) |-> LowerCh(s[i])]

\* str.strip(): drop leading and trailing whitespace
RECURSIVE LStrip(_)
LStrip(s) == IF s # <<>> /\ IsSpace(Head(s)) THEN LStrip(Tail(s)) ELSE s
RECURSIVE RStrip(_)
RStrip(s) ==
    IF s # <<>> /\ IsSpace(s[Len(s)]) THEN RStrip(SubSeq(s, 1, Len(s) - 1)) ELSE s
PyStrip(s) == RStrip(LStrip(s))

\* str.endswith(suffix)
EndsWith(s, suffix) ==
    /\ Len(suffix) <= Len(s)
    /\ SubSeq(s, Len(s) - Len(suffix) + 1, Len(s)) = suffix

(***************************************************************************)
(* col_letter_to_index (main.py 12-18)                                     *)
(***************************************************************************)
\* the body of the for loop, from character i on, with the running idx
RECURSIVE ColLoop(_, _, _)
ColLoop(s, i, idx) ==
    IF i > Len(s) THEN idx
    ELSE ColLoop(s, i + 1, idx * 26 + (Ord(s[i]) - Ord("A") + 1))

\* a slip in the digit weight: the letters read as base-26 digits 0..25
ColDigitsFromZero(letter_) ==
    LET s == PyUpper(PyStrip(letter_))
        F[i \in 0..Len(s)] ==
            IF i = 0 THEN 0 ELSE F[i - 1] * 26 + (Ord(s[i]) - Ord("A"))
    IN  F[Len(s)]

col_letter_to_index(letter_) ==
    ColLoop(PyUpper(PyStrip(letter_)), 1, 0) - 1

(***************************************************************************)
(* DataFrame.iloc[r0:r1+1, c0:c1+1] (main.py 38)                           *)
(***************************************************************************)
\* Python slice.indices(n) for step 1: a negative bound counts from the
\* end, then both bounds are clipped to 0..n
SliceBound(b, n) ==
    IF b < 0 THEN (IF b + n < 0 THEN 0 ELSE b + n)
    ELSE IF b > n THEN n ELSE b

\* the zero-based positions start:stop selects among n, in order
SliceIndices(start, stop, n) ==
    LET lo == SliceBound(start, n)
        hi == SliceBound(stop, n)
    IN  [k \in 1..(IF hi > lo THEN hi - lo ELSE 0) |-> lo + k - 1]

ILoc(df, rstart, rstop, cstart, cstop) ==
    LET rs == SliceIndices(rstart, rstop, Len(df.rows))
        cs == SliceIndices(cstart, cstop, Len(df.columns))
    IN  [columns |-> [j \in 1..Len(cs) |-> df.columns[cs[j] + 1]],
         rows    |-> [i \in 1..Len(rs) |->
                        [j \in 1..Len(cs) |-> df.rows[rs[i] + 1][cs[j] + 1]]]]

(***************************************************************************)
(* extract_excel_like_range (main.py 20-38)                                *)
(***************************************************************************)
\* a slip in the end bound: iloc's exclusive end taken as inclusive
ExtractEndExclusive(df, col_start, col_end, row_start, row_end, header) ==
    LET c0 == col_letter_to_index(col_start)
        c1 == col_letter_to_index(col_end)
        offset == IF header THEN 2 ELSE 1
    IN  ILoc(df, row_start - offset, row_end - offset, c0, c1)

extract_excel_like_range(df, col_start, col_end, row_start, row_end, header) ==
    LET c0 == col_letter_to_index(col_start)
        c1 == col_letter_to_index(col_end)
        offset == IF header THEN 2 ELSE 1
        r0 == row_start - offset
        r1 == row_end - offset
    IN  ILoc(df, r0, r1 + 1, c0, c1 + 1)

(***************************************************************************)
(* sanitize_condition_label (main.py 53-56) and str.splitlines             *)
(***************************************************************************)
\* re.sub(r"\s+", " ", s): every run of whitespace becomes one space
RECURSIVE CollapseSpaces(_)
CollapseSpaces(s) ==
    IF s = <<>> THEN <<>>
    ELSE IF IsSpace(Head(s)) THEN <<" ">> \o CollapseSpaces(LStrip(s))
    ELSE <<Head(s)>> \o CollapseSpaces(Tail(s))

sanitize_condition_label(s) == CollapseSpaces(PyStrip(s))

\* str.splitlines() for "\n" line ends: no empty last line after a final "\n"
RECURSIVE SplitFrom(_, _)
SplitFrom(s, cur) ==
    IF s = <<>> THEN (IF cur = <<>> THEN <<>> ELSE <<cur>>)
    ELSE IF Head(s) = "\n" THEN <<cur>> \o SplitFrom(Tail(s), <<>>)
    ELSE SplitFrom(Tail(s), Append(cur, Head(s)))
SplitLines(s) == SplitFrom(s, <<>>)

\* "\n".join(lines)
RECURSIVE JoinLines(_)
JoinLines(lines) ==
    IF lines = <<>> THEN <<>>
    ELSE IF Len(lines) = 1 THEN lines[1]
    ELSE lines[1] \o <<"\n">> \o JoinLines(Tail(lines))

\* [f(x) for x in xs if keep(x)] of main.py 72
RECURSIVE ActiveConditions(_)
ActiveConditions(lines) ==
    IF lines = <<>> THEN <<>>
    ELSE IF PyStrip(Head(lines)) # <<>>
         THEN <<sanitize_condition_label(Head(lines))>> \o ActiveConditions(Tail(lines))
         ELSE ActiveConditions(Tail(lines))

(***************************************************************************)
(* dict, as Python keeps it: the keys in insertion order                   *)
(***************************************************************************)
\* a dict is a sequence of <<key, value>> pairs with distinct keys
HasKey(d, k) == \E i \in 1..Len(d) : d[i][1] = k
DictGet(d, k) == d[CHOOSE i \in 1..Len(d) : d[i][1] = k][2]

\* d[k] = v: a new key goes last, an existing key keeps its place
DictSet(d, k, v) ==
    IF HasKey(d, k)
    THEN [i \in 1..Len(d) |-> IF d[i][1] = k THEN <<k, v>> ELSE d[i]]
    ELSE Append(d, <<k, v>>)

(***************************************************************************)
(* Tables                                                                  *)
(***************************************************************************)
\* the names pandas gives the columns of a file whose header row holds
\* these strings, in file order
DefaultNames == <<"c0","c1","c2","c3","c4","c5","c6","c7","c8","c9","c10",
                  "c11","c12","c13","c14","c15","c16","c17","c18","c19">>

NoFrame == [columns |-> <<>>, rows |-> <<>>]

\* the DataFrame of a file with the given column names and nrows data rows:
\* cell (r, c) holds the symbolic content <<fid, r, c>>
Table(fid, nrows, names) ==
    [columns |-> names,
     rows    |-> [r \in 1..nrows |-> [c \in 1..Len(names) |-> <<fid, r - 1, c - 1>>]]]

(***************************************************************************)
(* The pandas operations of the processing loop.  An operation that can    *)
(* raise returns [ok |-> TRUE, df |-> ...] or [ok |-> FALSE, msg |-> ...]. *)
(***************************************************************************)
Ok(df) == [ok |-> TRUE, df |-> df]
Raise(msg) == [ok |-> FALSE, msg |-> msg]

InsertAt(seq, loc, x) == SubSeq(seq, 1, loc) \o <<x>> \o SubSeq(seq, loc + 1, Len(seq))

IsIn(x, seq) == \E i \in 1..Len(seq) : seq[i] = x

\* an insert that ignores loc and puts the new column last
InsertLast(df, loc, column, value) ==
    IF IsIn(column, df.columns)
    THEN Raise(<<"cannot insert, already exists", column>>)
    ELSE Ok([columns |-> Append(df.columns, column),
             rows    |-> [i \in 1..Len(df.rows) |-> Append(df.rows[i], value)]])

\* DataFrame.insert(loc, column, value) with a scalar value:
\* ValueError when the frame already has a column of that name
Insert(df, loc, column, value) ==
    IF IsIn(column, df.columns)
    THEN Raise(<<"cannot insert, already exists", column>>)
    ELSE Ok([columns |-> InsertAt(df.columns, loc, column),
             rows    |-> [i \in 1..Len(df.rows) |-> InsertAt(df.rows[i], loc, value)]])

\* tmp["__row__"] = range(2, 2 + len(tmp)): a new last column, or the
\* column of that name overwritten in place
SetRowColumn(df) ==
    IF IsIn("__row__", df.columns)
    THEN LET p == CHOOSE j \in 1..Len(df.columns) : df.columns[j] = "__row__"
         IN  [columns |-> df.columns,
              rows    |-> [i \in 1..Len(df.rows) |-> [df.rows[i] EXCEPT ![p] = i + 1]]]
    ELSE [columns |-> Append(df.columns, "__row__"),
          rows    |-> [i \in 1..Len(df.rows) |-> Append(df.rows[i], i + 1)]]

\* tmp.melt(id_vars="__row__", var_name="Column", value_name="Value"):
\* one row per (row, value column), the value columns one after the other;
\* ValueError when a column is already named like value_name
Melt(df) ==
    IF IsIn("Value", df.columns)
    THEN Raise(<<"value_name cannot match an element in the DataFrame columns", "Value">>)
    ELSE LET idp  == CHOOSE j \in 1..Len(df.columns) : df.columns[j] = "__row__"
             vals == SelectSeq([j \in 1..Len(df.columns) |-> j], LAMBDA j : j # idp)
             n    == Len(df.rows)
         IN  Ok([columns |-> <<"__row__", "Column", "Value">>,
                 rows    |-> [k \in 1..(n * Len(vals)) |->
                                LET v == vals[((k - 1) \div n) + 1]
                                    i == ((k - 1) % n) + 1
                                IN  <<df.rows[i][idp], df.columns[v], df.rows[i][v]>>]])

\* DataFrame.rename(columns={old: new})
Rename(df, old, new) ==
    [columns |-> [j \in 1..Len(df.columns) |->
                    IF df.columns[j] = old THEN new ELSE df.columns[j]],
     rows    |-> df.rows]

\* the cell pd.concat fills in where a frame lacks a column
NaN == <<"NaN", -1, -1>>

RECURSIVE UnionColumns(_, _)
UnionColumns(frames, acc) ==
    IF frames = <<>> THEN acc
    ELSE UnionColumns(Tail(frames),
             acc \o SelectSeq(Head(frames).columns, LAMBDA c : ~IsIn(c, acc)))

Realign(df, cols) ==
    [i \in 1..Len(df.rows) |->
        [j \in 1..Len(cols) |->
            IF IsIn(cols[j], df.columns)
            THEN df.rows[i][CHOOSE q \in 1..Len(df.columns) : df.columns[q] = cols[j]]
            ELSE NaN]]

RECURSIVE ConcatRows(_, _)
ConcatRows(frames, cols) ==
    IF frames = <<>> THEN <<>>
    ELSE Realign(Head(frames), cols) \o ConcatRows(Tail(frames), cols)

RECURSIVE ConcatRowsReversed(_, _)
ConcatRowsReversed(frames, cols) ==
    IF frames = <<>> THEN <<>>
    ELSE ConcatRowsReversed(Tail(frames), cols) \o Realign(Head(frames), cols)

\* a concat that stacks the later frames on top
ConcatLastFirst(frames) ==
    IF frames = <<>> THEN Raise(<<"No objects to concatenate", "">>)
    ELSE LET cols == UnionColumns(frames, <<>>)
         IN  Ok([columns |-> cols, rows |-> ConcatRowsReversed(frames, cols)])

\* pd.concat(frames, ignore_index=True): the frames' rows in list order over
\* the union of their columns; ValueError on an empty list
PdConcat(frames) ==
    IF frames = <<>> THEN Raise(<<"No objects to concatenate", "">>)
    ELSE LET cols == UnionColumns(frames, <<>>)
         IN  Ok([columns |-> cols, rows |-> ConcatRows(frames, cols)])

(***************************************************************************)
(* Uploaded files and read_any_table (main.py 40-51)                       *)
(***************************************************************************)
\* an UploadedFile: its name, and what pandas makes of its bytes: whether
\* they parse, and then the header row's names and the number of data rows.
\* The uploader only accepts csv, txt, xlsx, xlsm and xls (main.py 88), so
\* every name in the catalogue has one of these suffixes.  The files differ
\* in where the try block raises: nowhere (g, s), in the read (b), in the
\* first insert of block 1 (c), in the second insert of block 2 (d), in the
\* melt of block 1 (v) or of block 2 (w).
None == [id |-> "None"]
IsNone(up) == up.id = "None"

WithName(names, pos, nm) == [names EXCEPT ![pos] = nm]

Catalogue ==
    { [id |-> "good", name |-> <<"g", ".", "c", "s", "v">>, parses |-> TRUE,
       nrows |-> 6, columns |-> DefaultNames],
      [id |-> "short", name |-> <<"s", ".", "T", "X", "T">>, parses |-> TRUE,
       nrows |-> 3, columns |-> SubSeq(DefaultNames, 1, 7)],
      [id |-> "bad", name |-> <<"b", ".", "x", "l", "s", "x">>, parses |-> FALSE,
       nrows |-> 0, columns |-> <<>>],
      [id |-> "dupc", name |-> <<"c", ".", "c", "s", "v">>, parses |-> TRUE,
       nrows |-> 6, columns |-> WithName(DefaultNames, 7, "Condition")],
      [id |-> "dupb", name |-> <<"d", ".", "x", "l", "s">>, parses |-> TRUE,
       nrows |-> 6, columns |-> WithName(DefaultNames, 13, "Block")],
      [id |-> "val1", name |-> <<"v", ".", "c", "s", "v">>, parses |-> TRUE,
       nrows |-> 6, columns |-> WithName(DefaultNames, 6, "Value")],
      [id |-> "val2", name |-> <<"w", ".", "x", "l", "s", "m">>, parses |-> TRUE,
       nrows |-> 6, columns |-> WithName(DefaultNames, 19, "Value")] }

Parsed(up) ==
    IF up.parses THEN Ok(Table(up.id, up.nrows, up.columns))
    ELSE Raise(<<"parse error", up.id>>)

read_any_table(up) ==
    LET name == PyLower(up.name)
    IN  IF EndsWith(name, <<".", "c", "s", "v">>) \/ EndsWith(name, <<".", "t", "x", "t">>)
        THEN Parsed(up)
        ELSE IF \/ EndsWith(name, <<".", "x", "l", "s", "x">>)
                \/ EndsWith(name, <<".", "x", "l", "s", "m">>)
                \/ EndsWith(name, <<".", "x", "l", "s">>)
        THEN Parsed(up)
        ELSE Raise(<<"Formato nao suportado", up.id>>)

(***************************************************************************)
(* The body of the try block (main.py 105-131)                             *)
(***************************************************************************)
\* what one iteration leaves: the two accumulators and, if the body raised,
\* the exception's message
Raised(rw, rl, msg) == [wide |-> rw, long |-> rl, raised |-> TRUE, msg |-> msg]
Done(rw, rl) == [wide |-> rw, long |-> rl, raised |-> FALSE, msg |-> <<>>]

\* main.py 113-115 / 118-120: the block tagged for the wide output
WideOf(cond, block_name, block_df) ==
    LET a == Insert(block_df, 0, "Condition", cond)
    IN  IF ~a.ok THEN a ELSE Insert(a.df, 1, "Block", block_name)

\* main.py 125-130: the block melted and tagged for the long output
LongOf(cond, block_name, block_df) ==
    LET m == Melt(SetRowColumn(block_df))
    IN  IF ~m.ok THEN m
        ELSE LET a == Insert(m.df, 0, "Condition", cond)
             IN  IF ~a.ok THEN a
                 ELSE LET b == Insert(a.df, 1, "Block", block_name)
                      IN  IF ~b.ok THEN b
                          ELSE Ok(Rename(b.df, "__row__", "ExcelRow"))

TryBody(cond, up, header, rw, rl) ==
    LET rd == read_any_table(up)
    IN  IF ~rd.ok THEN Raised(rw, rl, rd.msg) ELSE
    LET block1 == extract_excel_like_range(rd.df, <<"F">>, <<"H">>, 2, 6, header)
        block2 == extract_excel_like_range(rd.df, <<"L">>, <<"S">>, 2, 6, header)
        b1 == WideOf(cond, "F2:H6", block1)
    IN  IF ~b1.ok THEN Raised(rw, rl, b1.msg) ELSE
    LET rw1 == Append(rw, b1.df)
        b2 == WideOf(cond, "L2:S6", block2)
    IN  IF ~b2.ok THEN Raised(rw1, rl, b2.msg) ELSE
    LET rw2 == Append(rw1, b2.df)
        l1 == LongOf(cond, "F2:H6", block1)
    IN  IF ~l1.ok THEN Raised(rw2, rl, l1.msg) ELSE
    LET rl1 == Append(rl, l1.df)
        l2 == LongOf(cond, "L2:S6", block2)
    IN  IF ~l2.ok THEN Raised(rw2, rl1, l2.msg)
        ELSE Done(rw2, Append(rl1, l2.df))

\* a handler that keeps only the latest failure
ExceptOverwrite(errs, cond, up, msg) == <<<<cond, up.name, msg>>>>

\* main.py 133-134
Except(errs, cond, up, msg) == Append(errs, <<cond, up.name, msg>>)

(***************************************************************************)
(* Bounds of the inputs                                                    *)
(***************************************************************************)
MaxRows == 6     \* data rows of a table given to extract_excel_like_range
MaxCols == 8     \* columns of such a table
MaxLines == 2    \* lines the operator types into the condition list

\* the lines an operator types: a blank one, a label, the same label with
\* spaces around it, and a label with a run of whitespace inside
RawLines ==
    { <<" ">>, <<"a">>, <<" ", "a", " ">>, <<"b", "\t", " ", "c">> }

\* every string of one or two letters A..Z, and a few the way an operator
\* may type them
TwoLetterStrings ==
    {<<UpperCase[i]>> : i \in 1..26}
        \cup {<<UpperCase[i], UpperCase[j]>> : i, j \in 1..26}
ColInputs ==
    TwoLetterStrings \cup {<<"f">>, <<" ", "h">>, <<"a", "z", " ">>, <<"S", " ">>}

RangeTable(x) == Table("t", x.nrows, SubSeq(DefaultNames, 1, x.ncols))

(***************************************************************************)
(* Specification of col_letter_to_index alone                              *)
(***************************************************************************)
ColIdle == letter = <<>> /\ col_index = 0 /\ col_pc = "idle"
RngIdle == rng = [nrows |-> 0] /\ rng_out = NoFrame /\ rng_pc = "idle"
RunIdle ==
    /\ conditions_text = <<>> /\ header_in_row1 = TRUE /\ conditions = <<>>
    /\ widgets = <<>> /\ uploaded_by_condition = <<>>
    /\ results_long = <<>> /\ results_wide = <<>> /\ errors = <<>>
    /\ it = 0 /\ df_wide = NoFrame /\ df_long = NoFrame /\ pc = "idle"

\* a caller holds a column-letter string, or asks which string has a
\* given index
ColInit ==
    /\ \/ letter \in ColInputs /\ col_index = 0 /\ col_pc = "call"
       \/ letter = <<>> /\ col_index \in 0..701 /\ col_pc = "probe"
    /\ RngIdle /\ RunIdle

ColConvert ==
    /\ col_pc = "call"
    /\ col_index' = col_letter_to_index(letter)
    /\ col_pc' = "ret"
    /\ UNCHANGED <<letter, rngVars, runVars>>

\* search the one- and two-letter strings for the one with index col_index
ColProbe ==
    /\ col_pc = "probe"
    /\ \E s \in TwoLetterStrings :
         /\ col_letter_to_index(s) = col_index
         /\ letter' = s
    /\ col_pc' = "found"
    /\ UNCHANGED <<col_index, rngVars, runVars>>

ColNext == ColConvert \/ ColProbe
SpecCol == ColInit /\ [][ColNext]_vars

(***************************************************************************)
(* Specification of extract_excel_like_range alone                         *)
(***************************************************************************)
RangeInit ==
    /\ \E nr \in 0..MaxRows, nc \in 0..MaxCols,
          ci \in 1..(MaxCols + 1), cj \in 1..(MaxCols + 1),
          rs \in 1..(MaxRows + 2), re \in 1..(MaxRows + 2), h \in BOOLEAN :
         /\ ci <= cj /\ rs <= re
         /\ rng = [nrows |-> nr, ncols |-> nc,
                   col_start |-> <<UpperCase[ci]>>, col_end |-> <<UpperCase[cj]>>,
                   row_start |-> rs, row_end |-> re, header |-> h]
    /\ rng_out = NoFrame /\ rng_pc = "call"
    /\ ColIdle /\ RunIdle

RangeExtract ==
    /\ rng_pc = "call"
    /\ rng_out' = extract_excel_like_range(RangeTable(rng), rng.col_start,
                      rng.col_end, rng.row_start, rng.row_end, rng.header)
    /\ rng_pc' = "ret"
    /\ UNCHANGED <<rng, colVars, runVars>>

RangeNext == RangeExtract
SpecRange == RangeInit /\ [][RangeNext]_vars

(***************************************************************************)
(* Specification of one run of the script (main.py 61-177)                 *)
(***************************************************************************)
RECURSIVE BuildUploaders(_, _, _, _)
\* main.py 82-90: uploaded_by_condition[cond] = st.file_uploader(...), for
\* i, cond in enumerate(conditions); the widget of slot i returns ups[i]
BuildUploaders(conds, ups, i, d) ==
    IF i > Len(conds) THEN d
    ELSE BuildUploaders(conds, ups, i + 1, DictSet(d, conds[i], ups[i]))

RunInit ==
    /\ \E n \in 0..MaxLines : \E lines \in [1..n -> RawLines] :
         conditions_text = JoinLines(lines)
    /\ header_in_row1 \in BOOLEAN
    /\ conditions = <<>> /\ widgets = <<>> /\ uploaded_by_condition = <<>>
    /\ results_long = <<>> /\ results_wide = <<>> /\ errors = <<>>
    /\ it = 0 /\ df_wide = NoFrame /\ df_long = NoFrame /\ pc = "sidebar"
    /\ ColIdle /\ RngIdle

\* main.py 72-75: the condition list; st.stop() when it is empty
ReadConditions ==
    /\ pc = "sidebar"
    /\ conditions' = ActiveConditions(SplitLines(conditions_text))
    /\ pc' = IF Len(conditions') = 0 THEN "stopped" ELSE "uploaders"
    /\ UNCHANGED <<conditions_text, header_in_row1, widgets, uploaded_by_condition,
                   results_long, results_wide, errors, it, df_wide, df_long,
                   colVars, rngVars>>

\* main.py 82-90: one uploader per condition, each holding a file or nothing
ShowUploaders ==
    /\ pc = "uploaders"
    /\ \E ups \in [1..Len(conditions) -> Catalogue \cup {None}] :
         /\ widgets' = ups
         /\ uploaded_by_condition' = BuildUploaders(conditions, ups, 1, <<>>)
    /\ pc' = "button"
    /\ UNCHANGED <<conditions_text, header_in_row1, conditions,
                   results_long, results_wide, errors, it, df_wide, df_long,
                   colVars, rngVars>>

\* main.py 95-99: Processar pressed
Press ==
    /\ pc = "button"
    /\ results_long' = <<>> /\ results_wide' = <<>> /\ errors' = <<>>
    /\ it' = 1
    /\ pc' = "loop"
    /\ UNCHANGED <<conditions_text, header_in_row1, conditions, widgets,
                   uploaded_by_condition, df_wide, df_long, colVars, rngVars>>

\* main.py 101-103: a condition without a file
LoopSkip ==
    /\ pc = "loop" /\ it <= Len(uploaded_by_condition)
    /\ IsNone(uploaded_by_condition[it][2])
    /\ it' = it + 1
    /\ UNCHANGED <<conditions_text, header_in_row1, conditions, widgets,
                   uploaded_by_condition, results_long, results_wide, errors,
                   df_wide, df_long, pc, colVars, rngVars>>

\* main.py 101-134: a condition with a file: the try block and its handler
LoopProcess ==
    /\ pc = "loop" /\ it <= Len(uploaded_by_condition)
    /\ ~IsNone(uploaded_by_condition[it][2])
    /\ LET cond == uploaded_by_condition[it][1]
           up   == uploaded_by_condition[it][2]
           out  == TryBody(cond, up, header_in_row1, results_wide, results_long)
       IN  /\ results_wide' = out.wide
           /\ results_long' = out.long
           /\ errors' = IF out.raised THEN Except(errors, cond, up, out.msg) ELSE errors
    /\ it' = it + 1
    /\ UNCHANGED <<conditions_text, header_in_row1, conditions, widgets,
                   uploaded_by_condition, df_wide, df_long, pc, colVars, rngVars>>

\* main.py 136-177: the error list is shown; st.stop() after the warning
\* when results_wide is empty; else both concats, then the previews and the
\* downloads.  A concat that raises ends the run with the exception.
Finish ==
    /\ pc = "loop" /\ it > Len(uploaded_by_condition)
    /\ IF results_wide = <<>>
       THEN /\ pc' = "warned"
            /\ UNCHANGED <<df_wide, df_long>>
       ELSE LET w == PdConcat(results_wide)
                l == PdConcat(results_long)
            IN  /\ df_wide' = w.df
                /\ df_long' = IF l.ok THEN l.df ELSE df_long
                /\ pc' = IF l.ok THEN "exported" ELSE "crashed"
    /\ UNCHANGED <<conditions_text, header_in_row1, conditions, widgets,
                   uploaded_by_condition, results_long, results_wide, errors, it,
                   colVars, rngVars>>

Next == ReadConditions \/ ShowUploaders \/ Press \/ LoopSkip \/ LoopProcess \/ Finish
Spec == RunInit /\ [][Next]_vars

(***************************************************************************)
(* Vocabulary of the properties                                            *)
(***************************************************************************)
\* the position of a single letter in the alphabet, zero-based: its
\* spreadsheet column index
LetterPos(s) == (CHOOSE i \in 1..26 : UpperCase[i] = s[1]) - 1

\* the spreadsheet name of column index n < 702, by the convention
\* A..Z, AA..AZ, BA..ZZ
ExcelName(n) ==
    IF n < 26 THEN <<UpperCase[n + 1]>>
    ELSE <<UpperCase[((n - 26) \div 26) + 1], UpperCase[((n - 26) % 26) + 1]>>

RECURSIVE AllRows(_)
\* the rows of a list of frames, in list order
AllRows(frames) ==
    IF frames = <<>> THEN <<>> ELSE Head(frames).rows \o AllRows(Tail(frames))

\* the rows tagged with a condition, in order
RowsOf(frames, cond) == SelectSeq(AllRows(frames), LAMBDA row : row[1] = cond)

IsCell(v) == v # NaN
FinalPc == pc \in {"warned", "exported", "crashed"}
InLoop == pc = "loop" \/ FinalPc

\* the dict entries the loop has gone through that hold a file
Visited == {k \in 1..Len(uploaded_by_condition) :
               k < it /\ ~IsNone(uploaded_by_condition[k][2])}
HasError(k) ==
    \E e \in 1..Len(errors) : errors[e][1] = uploaded_by_condition[k][1]
Succeeded == {k \in Visited : ~HasError(k)}

\* what the file of entry k yields when it is the only file processed
Alone(k) ==
    TryBody(uploaded_by_condition[k][1], uploaded_by_condition[k][2],
            header_in_row1, <<>>, <<>>)

\* the place of a condition label in the condition list
Rank(cond) == CHOOSE i \in 1..Len(conditions) :
                 /\ conditions[i] = cond
                 /\ \A j \in 1..(i - 1) : conditions[j] # cond

BlockRank(b) == IF b = "F2:H6" THEN 1 ELSE 2

\* rows i < j of a consolidated table are in processing order
InOrder(rows) ==
    \A i, j \in 1..Len(rows) :
        i < j => \/ Rank(rows[i][1]) < Rank(rows[j][1])
                 \/ /\ rows[i][1] = rows[j][1]
                    /\ BlockRank(rows[i][2]) <= BlockRank(rows[j][2])

(***************************************************************************)
(* C1: col_letter_to_index is the spreadsheet numbering on the strings of  *)
(* one or two letters: A=0, Z=25, AA=26, AZ=51, BA=52, ZZ=701; no two      *)
(* strings share an index and every index 0..701 is the index of one.      *)
(***************************************************************************)
C1_ColumnBijection ==
    /\ (col_pc = "ret" /\ letter \in TwoLetterStrings) =>
          /\ col_index \in 0..701
          /\ letter = ExcelName(col_index)
          /\ \A s \in TwoLetterStrings :
                col_letter_to_index(s) = col_index => s = letter
          /\ (letter = <<"A">> => col_index = 0)
          /\ (letter = <<"B">> => col_index = 1)
          /\ (letter = <<"Z">> => col_index = 25)
          /\ (letter = <<"A", "A">> => col_index = 26)
          /\ (letter = <<"A", "Z">> => col_index = 51)
          /\ (letter = <<"B", "A">> => col_index = 52)
          /\ (letter = <<"Z", "Z">> => col_index = 701)
    /\ col_pc = "probe" =>
          \E s \in TwoLetterStrings : col_letter_to_index(s) = col_index

C1_Witness ==
    col_pc = "ret" /\ letter = <<"B", "A">> /\ col_index = 52

(***************************************************************************)
(* C2: for a range inside the table (header present: 2 <= row_start <=     *)
(* row_end <= R+1; header absent: 1 <= row_start <= row_end <= R; and      *)
(* index(col_start) <= index(col_end) < C) the result has                  *)
(* row_end-row_start+1 rows and index(col_end)-index(col_start)+1 columns, *)
(* and its cell (i, j) is the table's cell (row_start-offset+i,            *)
(* index(col_start)+j), offset 2 with a header and 1 without; so F2:H6 is  *)
(* rows 0..4 by columns 5..7, 5 by 3.                                      *)
(***************************************************************************)
InsideTable(x) ==
    /\ (IF x.header THEN 2 ELSE 1) <= x.row_start
    /\ x.row_start <= x.row_end
    /\ x.row_end <= x.nrows + (IF x.header THEN 1 ELSE 0)
    /\ LetterPos(x.col_start) <= LetterPos(x.col_end)
    /\ LetterPos(x.col_end) < x.ncols

C2_RangeIsPositionalRead ==
    (rng_pc = "ret" /\ InsideTable(rng)) =>
        LET off == IF rng.header THEN 2 ELSE 1
            nr  == rng.row_end - rng.row_start + 1
            c0  == LetterPos(rng.col_start)
            nc  == LetterPos(rng.col_end) - c0 + 1
        IN  /\ Len(rng_out.rows) = nr
            /\ Len(rng_out.columns) = nc
            /\ \A i \in 0..(nr - 1) :
                  /\ Len(rng_out.rows[i + 1]) = nc
                  /\ \A j \in 0..(nc - 1) :
                        rng_out.rows[i + 1][j + 1] = <<"t", rng.row_start - off + i, c0 + j>>
            /\ \A j \in 0..(nc - 1) : rng_out.columns[j + 1] = DefaultNames[c0 + j + 1]

C2_Witness ==
    /\ rng_pc = "ret" /\ rng.header /\ rng.nrows >= 5 /\ rng.ncols = 8
    /\ rng.col_start = <<"F">> /\ rng.col_end = <<"H">>
    /\ rng.row_start = 2 /\ rng.row_end = 6
    /\ Len(rng_out.rows) = 5 /\ Len(rng_out.columns) = 3
    /\ rng_out.rows[1] = <<<<"t", 0, 5>>, <<"t", 0, 6>>, <<"t", 0, 7>>>>
    /\ rng_out.rows[5] = <<<<"t", 4, 5>>, <<"t", 4, 6>>, <<"t", 4, 7>>>>

(***************************************************************************)
(* C3: for 1-based rows (row_start >= 1, row 1 being the header row when a *)
(* header is present) and start <= end, the result is exactly the part of  *)
(* the requested rectangle that lies inside the table's data: no cell from *)
(* outside the rectangle, no in-table cell of the rectangle left out.      *)
(***************************************************************************)
\* the cells of a frame
CellsOf(df) ==
    {df.rows[i][j] : i \in 1..Len(df.rows), j \in 1..Len(df.columns)}

\* the cells of the table that lie in the requested rectangle: data row r
\* is spreadsheet row r + 2 under a header and r + 1 without one
RectangleCells(x) ==
    LET off == IF x.header THEN 2 ELSE 1
    IN  {<<"t", r, c>> : r \in {q \in 0..(x.nrows - 1) :
                                  x.row_start <= q + off /\ q + off <= x.row_end},
                         c \in {q \in 0..(x.ncols - 1) :
                                  LetterPos(x.col_start) <= q /\ q <= LetterPos(x.col_end)}}

C3_ResultIsClippedRectangle ==
    rng_pc = "ret" =>
        /\ CellsOf(rng_out) = RectangleCells(rng)
        /\ Len(rng_out.rows) <= rng.row_end - rng.row_start + 1
        /\ Len(rng_out.columns) <= LetterPos(rng.col_end) - LetterPos(rng.col_start) + 1

(***************************************************************************)
(* C4: a file whose try block raises gets exactly one error record         *)
(* (condition, file name, reason) and the loop goes on: every entry is     *)
(* gone through, and what each file leaves in the accumulators and in the  *)
(* error list is what it leaves when processed alone.                      *)
(***************************************************************************)
C4_FailureIsolated ==
    InLoop =>
        /\ FinalPc => it = Len(uploaded_by_condition) + 1
        /\ \A k \in 1..Len(uploaded_by_condition) :
              LET cond == uploaded_by_condition[k][1]
                  up   == uploaded_by_condition[k][2]
                  errs == SelectSeq(errors, LAMBDA e : e[1] = cond)
              IN  IF k \in Visited
                  THEN /\ errs = IF Alone(k).raised
                                 THEN <<<<cond, up.name, Alone(k).msg>>>>
                                 ELSE <<>>
                       /\ RowsOf(results_wide, cond) = AllRows(Alone(k).wide)
                       /\ RowsOf(results_long, cond) = AllRows(Alone(k).long)
                  ELSE /\ errs = <<>>
                       /\ RowsOf(results_wide, cond) = <<>>
                       /\ RowsOf(results_long, cond) = <<>>

\* a failing file, then a later file that is still read and extracted
C4_Witness ==
    /\ pc = "exported"
    /\ \E k1, k2 \in Visited :
          /\ k1 < k2
          /\ Alone(k1).raised /\ HasError(k1)
          /\ ~Alone(k2).raised /\ ~HasError(k2)
          /\ RowsOf(results_wide, uploaded_by_condition[k2][1]) # <<>>

(***************************************************************************)
(* C5: the run ends in the "nothing was processed" warning if and only if  *)
(* no file was processed successfully; with at least one success it ends   *)
(* in the export of both tables; with none it ends in the warning and in   *)
(* no other outcome.                                                       *)
(***************************************************************************)
C5_WarningIffNoSuccess ==
    FinalPc =>
        /\ (pc = "warned") <=> (Succeeded = {})
        /\ (Succeeded # {}) => pc = "exported"
        /\ (Succeeded = {}) => pc = "warned"

(***************************************************************************)
(* C6: the consolidated tables keep insertion order: the rows of a file    *)
(* processed earlier (a condition earlier in the condition list) precede   *)
(* the rows of a file processed later, within a file the rows of F2:H6     *)
(* precede those of L2:S6, and the concatenation drops and re-sorts        *)
(* nothing.                                                                *)
(***************************************************************************)
C6_InsertionOrder ==
    pc = "exported" =>
        /\ InOrder(df_wide.rows)
        /\ InOrder(df_long.rows)
        /\ Len(df_wide.rows) = Len(AllRows(results_wide))
        /\ Len(df_long.rows) = Len(AllRows(results_long))
        /\ \A i \in 1..Len(df_wide.rows) :
              /\ df_wide.rows[i][1] = AllRows(results_wide)[i][1]
              /\ df_wide.rows[i][2] = AllRows(results_wide)[i][2]
              /\ \A c \in 3..Len(AllRows(results_wide)[i]) :
                    \E q \in 3..Len(df_wide.columns) :
                        df_wide.rows[i][q] = AllRows(results_wide)[i][c]
        /\ df_long.rows = AllRows(results_long)

\* two files processed without error, both in both tables
C6_Witness ==
    /\ pc = "exported" /\ errors = <<>>
    /\ Cardinality(Succeeded) = 2
    /\ df_wide.rows[1][1] # df_wide.rows[Len(df_wide.rows)][1]
    /\ df_long.rows[1][1] # df_long.rows[Len(df_long.rows)][1]

(***************************************************************************)
(* C7 as stated: every row of the consolidated output carries a leading    *)
(* provenance column whose value is the name of the source file the row    *)
(* was extracted from.                                                     *)
(***************************************************************************)
\* the name of the file a cell was read from
SourceName(cell) == (CHOOSE f \in Catalogue : f.id = cell[1]).name

C7_TaggedWithFileName ==
    pc = "exported" =>
        /\ \A i \in 1..Len(df_wide.rows) : \A q \in 3..Len(df_wide.columns) :
              IsCell(df_wide.rows[i][q]) =>
                  df_wide.rows[i][1] = SourceName(df_wide.rows[i][q])
        /\ \A i \in 1..Len(df_long.rows) :
              df_long.rows[i][1] = SourceName(df_long.rows[i][5])

(***************************************************************************)
(* C7 amended: every row of the consolidated output carries a leading      *)
(* column Condition whose value is the condition label under which the     *)
(* row's source file was uploaded (not the file's name), followed by a     *)
(* column Block naming the block the row's cells lie in.                   *)
(***************************************************************************)
\* the columns of the source table a block takes its cells from
BlockColumns(b) == IF b = "F2:H6" THEN 5..7 ELSE 11..18

TaggedCell(row, cell) ==
    /\ HasKey(uploaded_by_condition, row[1])
    /\ cell[1] = DictGet(uploaded_by_condition, row[1]).id
    /\ row[2] \in {"F2:H6", "L2:S6"}
    /\ cell[3] \in BlockColumns(row[2])

C7_TaggedWithCondition ==
    pc = "exported" =>
        /\ Len(df_wide.columns) >= 2
        /\ df_wide.columns[1] = "Condition" /\ df_wide.columns[2] = "Block"
        /\ SubSeq(df_long.columns, 1, 2) = <<"Condition", "Block">>
        /\ \A i \in 1..Len(df_wide.rows) :
              /\ HasKey(uploaded_by_condition, df_wide.rows[i][1])
              /\ df_wide.rows[i][2] \in {"F2:H6", "L2:S6"}
              /\ \A q \in 3..Len(df_wide.columns) :
                    IsCell(df_wide.rows[i][q]) =>
                        TaggedCell(df_wide.rows[i], df_wide.rows[i][q])
        /\ \A i \in 1..Len(df_long.rows) :
              TaggedCell(df_long.rows[i], df_long.rows[i][5])

\* two files under two conditions, each row tagged with its own
C7_Witness ==
    /\ pc = "exported"
    /\ \E i, j \in 1..Len(df_wide.rows) :
          /\ df_wide.rows[i][1] # df_wide.rows[j][1]
          /\ IsCell(df_wide.rows[i][3]) /\ IsCell(df_wide.rows[j][3])
          /\ df_wide.rows[i][3][1] # df_wide.rows[j][3][1]
          /\ TaggedCell(df_wide.rows[i], df_wide.rows[i][3])
          /\ TaggedCell(df_wide.rows[j], df_wide.rows[j][3])
          /\ df_wide.rows[i][1] # SourceName(df_wide.rows[i][3])

(***************************************************************************)
(* C8: for both settings of the header flag, a long row labelled           *)
(* ExcelRow = k holds a value of spreadsheet row k of the source file:     *)
(* read_any_table takes row 1 as the column names, so data row r of the    *)
(* table is spreadsheet row r + 2.                                         *)
(***************************************************************************)
C8_ExcelRowIsSpreadsheetRow ==
    \A f \in 1..Len(results_long) : \A i \in 1..Len(results_long[f].rows) :
        LET row == results_long[f].rows[i]
        IN  /\ row[3] \in 2..6
            /\ row[3] = row[5][2] + 2

(***************************************************************************)
(* C9: after the loop every file either has an error record and no row in  *)
(* either accumulator, or has no error record and both its blocks in both  *)
(* accumulators; so the conditions of the wide output are those of the     *)
(* long output, and none of them is in the error list.                     *)
(***************************************************************************)
CondsIn(frames) == {AllRows(frames)[i][1] : i \in 1..Len(AllRows(frames))}
CondsInErrors == {errors[e][1] : e \in 1..Len(errors)}

C9_AllOrNothing ==
    FinalPc =>
        /\ \A k \in Visited :
              HasError(k) =>
                  /\ RowsOf(results_wide, uploaded_by_condition[k][1]) = <<>>
                  /\ RowsOf(results_long, uploaded_by_condition[k][1]) = <<>>
        /\ Len(results_wide) = 2 * Cardinality(Succeeded)
        /\ Len(results_long) = 2 * Cardinality(Succeeded)
        /\ CondsIn(results_wide) = CondsIn(results_long)
        /\ CondsIn(results_wide) \cap CondsInErrors = {}

(***************************************************************************)
(* C10: no uploaded file is silently dropped: after Processar, the file of *)
(* every upload slot either has rows in the consolidated result or is in   *)
(* the error list, also when two lines of the condition list are equal     *)
(* after sanitizing.                                                       *)
(***************************************************************************)
C10_NoFileSilentlyDropped ==
    FinalPc =>
        \A i \in 1..Len(widgets) :
            ~IsNone(widgets[i]) =>
                \/ \E e \in 1..Len(errors) :
                      errors[e][1] = conditions[i] /\ errors[e][2] = widgets[i].name
                \/ \E r \in 1..Len(AllRows(results_wide)) :
                      LET row == AllRows(results_wide)[r]
                      IN  /\ row[1] = conditions[i]
                          /\ Len(row) >= 3
                          /\ row[3][1] = widgets[i].id

====
